---- MODULE Spec2Model ----
(***************************************************************************)
(* Model of the wallet-standard handshake of the wallet adapter:           *)
(*   crate/src/events.rs  InitEvents (init, register_wallet_event,         *)
(*                        dispatch_app_event, register_object) and the     *)
(*                        WalletEvent channel aliases,                     *)
(*   crate/src/utils.rs   Reflection (the typed reads of host values) and  *)
(*                        Utils::shorten_base58 / custom_shorten_base58.   *)
(*                                                                         *)
(* Host strings are sequences of tokens (a token is a TLA+ string), so     *)
(* that starts_with, contains and to_lowercase are computed, not assumed.  *)
(***************************************************************************)
EXTENDS Integers, Sequences, FiniteSets, TLC

VARIABLES
    stack,              \* the synchronous call stack, innermost frame last
    listenerInstalled,  \* window has the register-wallet listener of init
    appReadyDispatched, \* window.dispatch_event(app-ready) has started
    initResult,         \* "none" (not called), "running", "Ok" or "Err"
    registries,         \* storage handle -> (fingerprint -> Wallet)
    consoleErrors,      \* number of console.error calls
    panics,             \* number of Rust panics (unwrap/expect on Err)
    ops,                \* wallet operations so far (bounds the run)
    nEager,             \* app-ready handlers registered before init
    handlersRun,        \* app-ready handlers the dispatch has run
    okLog,              \* history: the successful registrations, in order
    lastReg,            \* history: the last call of the register closure
    borrows,            \* storage handle -> live mutable borrows of its RefCell
    borrowPanics,       \* number of panics of borrow_mut (already borrowed)
    probe,              \* the last Reflection extraction: input and result
    shorten,            \* the last call of a shorten function: input and result
    chBuf,              \* WalletEvent channel: the buffered events
    chNext,             \* per producer: index of its next event to send
    chWait,             \* per producer: a send is suspended on a full channel
    chDrained,          \* per producer: receives seen while its send was suspended
    chRecv              \* the events the consumer received, in order

handshakeVars == <<stack, listenerInstalled, appReadyDispatched, initResult, registries,
                   consoleErrors, panics, ops, nEager, handlersRun, okLog, lastReg,
                   borrows, borrowPanics>>
channelVars == <<chBuf, chNext, chWait, chDrained, chRecv>>
vars == <<handshakeVars, probe, shorten, channelVars>>

(***************************************************************************)
(* Strings                                                                 *)
(***************************************************************************)
Upper == <<"A", "B", "E", "H", "L", "P", "T">>
Lower == <<"a", "b", "e", "h", "l", "p", "t">>

\* char::to_lowercase on the letters of the model's alphabet
ToLowerChar(c) ==
    IF \E i \in DOMAIN Upper : Upper[i] = c
    THEN Lower[CHOOSE i \in DOMAIN Upper : Upper[i] = c]
    ELSE c

\* str::to_lowercase
to_lowercase(s) == [i \in DOMAIN s |-> ToLowerChar(s[i])]

\* str::starts_with
starts_with(s, prefix) ==
    /\ Len(prefix) <= Len(s)
    /\ \A i \in DOMAIN prefix : s[i] = prefix[i]

\* str::contains
contains(s, pat) ==
    \E k \in 0..(Len(s) - Len(pat)) : \A i \in DOMAIN pat : s[k + i] = pat[i]

Alpha == <<"A", "l", "p", "h", "a">>
ALPHA == <<"A", "L", "P", "H", "A">>
Beta == <<"B", "e", "t", "a">>
SolanaPrefix == <<"solana", ":">>
SolanaMainnet == <<"solana", ":", "mainnet">>
SolanaDevnet == <<"solana", ":", "devnet">>
Ethereum1 == <<"ethereum", ":", "1">>
IsNotSupported == <<"is", "not", "supported">>

(***************************************************************************)
(* Host values (JsValue).  t is the JS type, s the string content (or, for *)
(* a non-string, the text its Debug form prints), items the elements of an *)
(* array or the own keys of an object, len the length of a Uint8Array.     *)
(* "absent" stands for a property the object does not have.                *)
(***************************************************************************)
JsVal(t, s, items, len) == [t |-> t, s |-> s, items |-> items, len |-> len]
Absent == JsVal("absent", <<>>, <<>>, 0)
Undefined == JsVal("undefined", <<"undefined">>, <<>>, 0)
Null == JsVal("null", <<"null">>, <<>>, 0)
JsString(s) == JsVal("string", s, <<>>, 0)
JsNumber == JsVal("number", <<"1">>, <<>>, 0)
JsFunction == JsVal("function", <<"Function">>, <<>>, 0)
JsBytes(n) == JsVal("uint8array", <<"Uint8Array">>, <<>>, n)
JsArray(items) == JsVal("array", <<"Array">>, items, 0)
\* an object whose own keys are `keys` and whose Debug text is `text`
JsObject(keys, text) == JsVal("object", text, keys, 0)
\* { "note": "is not supported" }
NoteObject == JsObject(<<JsString(<<"note">>)>>, <<"{", "note", ":">> \o IsNotSupported \o <<"}">>)
FeaturesObject == JsObject(<<JsString(<<"standard:connect">>), JsString(<<"standard:events">>)>>, <<"{", "}">>)

(***************************************************************************)
(* WalletResult                                                            *)
(***************************************************************************)
Ok(v) == [ok |-> TRUE, kind |-> "Ok", msg |-> <<>>, val |-> v]
Err(kind, msg) == [ok |-> FALSE, kind |-> kind, msg |-> msg, val |-> <<>>]
\* a host exception raised inside an import that is not declared `catch`:
\* the call never returns to Rust
Abort == [ok |-> FALSE, kind |-> "Abort", msg |-> <<>>, val |-> <<>>]

\* impl Debug for JsValue
Debug(v) == <<"JsValue(">> \o v.s \o <<")">>

NotAJsString(v) == Err("InternalError", Debug(v) \o <<"is", "not", "a", "JsString">>)

\* Reflection::concat_error
concat_error(expected, encountered) ==
    Err("InternalError", <<"Expected a typeof JS", expected, "but encountered a typeof Js", encountered>>)

\* JsValue::js_typeof
js_typeof(v) ==
    IF v.t \in {"undefined", "string", "number", "function"} THEN v.t ELSE "object"

\* v instanceof Object (JsCast::dyn_ref::<Object>)
IsObject(v) == v.t \in {"object", "array", "function", "uint8array"}

\* Object::keys
ObjectKeys(v) ==
    IF v.t = "object" THEN v.items
    ELSE IF v.t = "array" THEN [i \in DOMAIN v.items |-> JsString(<<"index">>)]
    ELSE IF v.t = "uint8array" THEN [i \in 1..v.len |-> JsString(<<"index">>)]
    ELSE <<>>

(***************************************************************************)
(* Reflection (crate/src/utils.rs).  self is the field record of a host    *)
(* object, key one of its field names.                                     *)
(***************************************************************************)
\* Reflect::get: a property the object lacks reads as undefined
Reflect_get(self, key) == IF self[key].t = "absent" THEN Undefined ELSE self[key]

\* Reflection::check_is_undefined
check_is_undefined(v) ==
    IF v.t = "undefined" \/ v.t = "null" THEN Err("ValueNotFound", <<>>) ELSE Ok(v)

\* Reflection::reflect_inner
reflect_inner(self, key) == check_is_undefined(Reflect_get(self, key))

\* Reflection::string
string(self, key) ==
    LET name == Reflect_get(self, key)
    IN  IF name.t = "string"
        THEN Ok(name.s)
        ELSE Err("InternalError", <<"Reflecting", key, "did not yield a JsString">>)

\* Reflection::reflect_bytes
reflect_bytes(self, key) ==
    LET js_value == Reflect_get(self, key)
    IN  IF js_value.t = "uint8array"
        THEN Ok(js_value.len)
        ELSE Err("InternalError", Debug(js_value) \o <<"cannot be cast to a Uint8Array">>)

\* Reflection::byte32array: the value is cast unchecked and to_vec reads its
\* length in the host, which throws on undefined and null
byte32array(self, key) ==
    LET js_value == Reflect_get(self, key)
        length == IF js_value.t = "uint8array" THEN js_value.len
                  ELSE IF js_value.t = "array" THEN Len(js_value.items)
                  ELSE IF js_value.t = "string" THEN Len(js_value.s)
                  ELSE 0
    IN  IF js_value.t \in {"undefined", "null"} THEN Abort
        ELSE IF length = 32 THEN Ok(length)
        ELSE Err("Expected32ByteLength", <<>>)

\* Reflection::get_function
get_function(self, key) ==
    LET js_value == Reflect_get(self, key)
    IN  IF js_value.t = "function"
        THEN Ok(js_value)
        ELSE Err("InternalError", Debug(js_value) \o <<"cannot be cast to a js_sys::Function">>)

\* Reflection::into_array
into_array(v) == IF v.t = "array" THEN Ok(v.items) ELSE concat_error("Array", js_typeof(v))

\* Reflection::reflect_js_array
reflect_js_array(self, key) ==
    LET js_value == reflect_inner(self, key)
    IN  IF ~js_value.ok THEN Err(js_value.kind, js_value.msg)
        ELSE into_array(js_value.val)

\* Reflection::get_string
get_string(v) == IF v.t = "string" THEN Ok(v.s) ELSE NotAJsString(v)

\* Iterator::collect::<Result<Vec<_>, _>>: the first Err in iteration order, or
\* every Ok value
collect(results) ==
    LET failed == {i \in DOMAIN results : ~results[i].ok}
        first == CHOOSE i \in failed : \A j \in failed : i <= j
    IN  IF DOMAIN results = {} THEN Ok(<<>>)
        ELSE IF failed = {} THEN Ok([i \in DOMAIN results |-> results[i].val])
        ELSE Err(results[first].kind, results[first].msg)

\* Reflection::vec_string
vec_string(self, key) ==
    LET to_js_array == reflect_js_array(self, key)
    IN  IF ~to_js_array.ok THEN to_js_array
        ELSE collect([i \in DOMAIN to_js_array.val |-> get_string(to_js_array.val[i])])

\* the closure of vec_string_and_filter applied to one element
FilterEntry(value, filter) ==
    LET parsed == get_string(value)
    IN  IF ~parsed.ok THEN parsed
        ELSE IF starts_with(parsed.val, filter) THEN Ok(parsed.val)
        ELSE Err("UnsupportedChain", parsed.val)

\* Reflection::vec_string_and_filter
vec_string_and_filter(self, key, filter) ==
    LET to_js_array == reflect_js_array(self, key)
    IN  IF ~to_js_array.ok THEN to_js_array
        ELSE collect([i \in DOMAIN to_js_array.val |-> FilterEntry(to_js_array.val[i], filter)])

\* Reflection::object_to_vec_string
object_to_vec_string(self, key) ==
    LET features_value == reflect_inner(self, key)
    IN  IF ~features_value.ok THEN features_value
        ELSE IF ~IsObject(features_value.val)
             THEN concat_error("JS Object", "object")
        ELSE LET keys == ObjectKeys(features_value.val)
             IN  collect([i \in DOMAIN keys |-> get_string(keys[i])])

(***************************************************************************)
(* Reflection applied to bounded host values                               *)
(***************************************************************************)
MaxChains == 2

RECURSIVE SeqsUpTo(_, _)
SeqsUpTo(S, n) ==
    IF n = 0 THEN {<<>>}
    ELSE LET shorter == SeqsUpTo(S, n - 1)
         IN  shorter \cup {Append(q, x) : q \in {r \in shorter : Len(r) = n - 1}, x \in S}

ChainEntries == {JsString(SolanaMainnet), JsString(SolanaDevnet), JsString(Ethereum1),
                 JsNumber, NoteObject}
ChainArrays == {JsArray(items) : items \in SeqsUpTo(ChainEntries, MaxChains)}
FieldValues ==
    {Absent, Undefined, Null, JsString(Alpha), JsString(SolanaMainnet), JsNumber, JsFunction,
     JsBytes(0), JsBytes(32), JsBytes(64), NoteObject, FeaturesObject} \cup ChainArrays

ProbeKeys == {"name", "chains"}
\* a host object whose property `key` is v (absent: no such property)
ProbeObject(key, v) == [k \in ProbeKeys |-> IF k = key THEN v ELSE Absent]

NoProbe == [op |-> "none", key |-> "none", field |-> Absent, r |-> Ok(<<>>)]

Probed(op, key, v, r) == [op |-> op, key |-> key, field |-> v, r |-> r]

ProbeString ==
    /\ \E key \in ProbeKeys, v \in FieldValues :
         probe' = Probed("string", key, v, string(ProbeObject(key, v), key))
    /\ UNCHANGED <<handshakeVars, shorten, channelVars>>
ProbeReflectInner ==
    /\ \E key \in ProbeKeys, v \in FieldValues :
         probe' = Probed("reflect_inner", key, v, reflect_inner(ProbeObject(key, v), key))
    /\ UNCHANGED <<handshakeVars, shorten, channelVars>>
ProbeReflectBytes ==
    /\ \E key \in ProbeKeys, v \in FieldValues :
         probe' = Probed("reflect_bytes", key, v, reflect_bytes(ProbeObject(key, v), key))
    /\ UNCHANGED <<handshakeVars, shorten, channelVars>>
ProbeByte32Array ==
    /\ \E key \in ProbeKeys, v \in FieldValues :
         probe' = Probed("byte32array", key, v, byte32array(ProbeObject(key, v), key))
    /\ UNCHANGED <<handshakeVars, shorten, channelVars>>
ProbeGetFunction ==
    /\ \E key \in ProbeKeys, v \in FieldValues :
         probe' = Probed("get_function", key, v, get_function(ProbeObject(key, v), key))
    /\ UNCHANGED <<handshakeVars, shorten, channelVars>>
ProbeVecString ==
    /\ \E key \in ProbeKeys, v \in FieldValues :
         probe' = Probed("vec_string", key, v, vec_string(ProbeObject(key, v), key))
    /\ UNCHANGED <<handshakeVars, shorten, channelVars>>
ProbeVecStringAndFilter ==
    /\ \E key \in ProbeKeys, v \in FieldValues :
         probe' = Probed("vec_string_and_filter", key, v,
              vec_string_and_filter(ProbeObject(key, v), key, SolanaPrefix))
    /\ UNCHANGED <<handshakeVars, shorten, channelVars>>
ProbeObjectToVecString ==
    /\ \E key \in ProbeKeys, v \in FieldValues :
         probe' = Probed("object_to_vec_string", key, v, object_to_vec_string(ProbeObject(key, v), key))
    /\ UNCHANGED <<handshakeVars, shorten, channelVars>>

(***************************************************************************)
(* Utils::shorten_base58 and Utils::custom_shorten_base58.  A string is    *)
(* the sequence of its ASCII characters, so a byte index is a character    *)
(* index.  usize is UsizeBits wide; every string is shorter than half its  *)
(* range, as a string in memory is.                                        *)
(***************************************************************************)
UsizeBits == 5
MaxStrLen == 10

UsizeRange == 2 ^ UsizeBits
Usize == 0..(UsizeRange - 1)

\* a panic of the Rust code (arithmetic overflow, slice index out of range)
Panicked == [ok |-> FALSE, kind |-> "Panic", msg |-> <<>>, val |-> <<>>]

Ellipsis == <<".", ".", ".">>

\* take + take on usize: wraps without overflow checks, panics with them
take_plus_take(take, overflow_checks) ==
    IF take + take >= UsizeRange
    THEN IF overflow_checks THEN Panicked ELSE Ok((take + take) % UsizeRange)
    ELSE Ok(take + take)

\* &base58_str[..take] and &base58_str[base58_str.len() - take..], joined
slice_and_join(base58_str, take) ==
    IF take > Len(base58_str) THEN Panicked
    ELSE Ok(SubSeq(base58_str, 1, take) \o Ellipsis
            \o SubSeq(base58_str, Len(base58_str) - take + 1, Len(base58_str)))

\* Utils::custom_shorten_base58
custom_shorten_base58(base58_str, take, overflow_checks) ==
    LET twice == take_plus_take(take, overflow_checks)
    IN  IF ~twice.ok THEN Panicked
        ELSE IF Len(base58_str) < twice.val THEN Err("InvalidBase58Address", <<>>)
        ELSE slice_and_join(base58_str, take)

\* Utils::shorten_base58
shorten_base58(base58_str) ==
    IF Len(base58_str) < 8 THEN Err("InvalidBase58Address", <<>>)
    ELSE slice_and_join(base58_str, 4)

Letters == <<"a", "b", "c", "d", "e", "f", "g", "h">>
\* "abcdefghab..." cut to every length, and two strings that differ only
\* between their first four and last four characters
Base58Inputs ==
    {[i \in 1..k |-> Letters[((i - 1) % Len(Letters)) + 1]] : k \in 0..MaxStrLen}
        \cup {<<"a", "b", "c", "d", "X", "e", "f", "g", "h">>,
              <<"a", "b", "c", "d", "Y", "Z", "e", "f", "g", "h">>}

NoShorten == [op |-> "none", s |-> <<>>, take |-> 0, r |-> Ok(<<>>)]

ShortenBase58 ==
    /\ \E s \in Base58Inputs :
         shorten' = [op |-> "shorten_base58", s |-> s, take |-> 4, r |-> shorten_base58(s)]
    /\ UNCHANGED <<handshakeVars, probe, channelVars>>

CustomShortenBase58 ==
    /\ \E s \in Base58Inputs, take \in Usize, overflow_checks \in BOOLEAN :
         shorten' = [op |-> "custom_shorten_base58", s |-> s, take |-> take,
                     r |-> custom_shorten_base58(s, take, overflow_checks)]
    /\ UNCHANGED <<handshakeVars, probe, channelVars>>

(***************************************************************************)
(* Wallet announcements and the registry                                   *)
(***************************************************************************)
\* Reflection::into_function
into_function(v) ==
    IF v.t = "function" THEN Ok(v) ELSE concat_error("Function", js_typeof(v))

\* Reflection::new
Reflection_new(v) == check_is_undefined(v)

\* Utils::jsvalue_to_error applied to the outcome of Function::call1
jsvalue_to_error(threw) == IF threw THEN Err("JsError", <<"exception">>) ELSE Ok(<<>>)

Announcement(name, version, chains) ==
    [root |-> "object", fields |-> [name |-> name, version |-> version, chains |-> chains]]
NullAnnouncement ==
    [root |-> "null", fields |-> [name |-> Absent, version |-> Absent, chains |-> Absent]]

V1 == JsString(<<"1.0.0">>)
V2 == JsString(<<"2.0.0">>)
SolanaChains == JsArray(<<JsString(SolanaMainnet)>>)

ValidAnns ==
    {Announcement(JsString(Alpha), V1, SolanaChains),
     Announcement(JsString(Alpha), V2, SolanaChains),
     Announcement(JsString(ALPHA), V1, SolanaChains),
     Announcement(JsString(Beta), V1, SolanaChains)}
MalformedAnns ==
    {Announcement(Absent, V1, SolanaChains),
     Announcement(JsString(Beta), V1, JsArray(<<JsString(Ethereum1)>>)),
     Announcement(JsString(Beta), V1, JsArray(<<NoteObject>>)),
     Announcement(JsString(Beta), V2, JsArray(<<>>)),
     NullAnnouncement}
Anns == ValidAnns \cup MalformedAnns

Failure(r) == IF r.ok THEN {} ELSE {Err(r.kind, r.msg)}

\* Wallet::from_jsvalue: the results it can give.  The order in which it reads
\* the fields is not fixed here, so with several bad fields any of their
\* errors may be the one returned.
Wallet_from_jsvalue(value) ==
    IF value.root # "object" THEN {Err("ValueNotFound", <<>>)}
    ELSE LET name == string(value.fields, "name")
             version == string(value.fields, "version")
             chains == vec_string_and_filter(value.fields, "chains", SolanaPrefix)
             failures == Failure(name) \cup Failure(version) \cup Failure(chains)
         IN  IF failures = {}
             THEN {Ok([name |-> name.val, version |-> version.val, chains |-> chains.val])}
             ELSE failures

\* impl Display for WalletError
to_string(error) ==
    IF error.kind = "UnsupportedChain" THEN <<"The chain">> \o error.msg \o IsNotSupported
    ELSE IF error.kind = "ValueNotFound" THEN <<"A value of undefined or null was encountered">>
    ELSE <<"Internal Error">> \o error.msg

\* blake3::hash, taken as collision free: the digest determines its input
Blake3(bytes) == <<"blake3">> \o bytes

\* mutant: the key is the hash of the name as announced
FingerprintCaseSensitive(name) == Blake3(name)

\* the key the register closure inserts under
Fingerprint(name) == Blake3(to_lowercase(name))

\* HashMap::insert
insert(map, key, value) ==
    [k \in DOMAIN map \cup {key} |-> IF k = key THEN value ELSE map[k]]

\* the Err arm of the register closure: whether the error reaches the console
LogsError(error) == ~contains(to_string(error), IsNotSupported)

EmptyRegistry == [k \in {} |-> 0]
AdapterStorage == "adapter"
Storages == {AdapterStorage, "detached"}

\* InitEvents::register_object: the storage the register closure captures
register_object(storage) == storage

\* mutant: the app-ready register object fills a map of its own
AppReadyDetailDetached(storage) == register_object("detached")

\* the detail of the app-ready event
AppReadyDetail(storage) == register_object(storage)

\* mutant: the listener's register object fills a map of its own
ListenerArgDetached(inner_storage) == register_object("detached")

\* the argument the listener passes to the detail function
ListenerArg(inner_storage) == register_object(inner_storage)

NoReg == [called |-> FALSE, kind |-> "none", logged |-> FALSE, changed |-> FALSE, via |-> "none"]

(***************************************************************************)
(* The call stack                                                          *)
(***************************************************************************)
MaxOps == 3
MaxEager == 1

Frame(kind, step, detail, via, storage, recv, delivered) ==
    [kind |-> kind, step |-> step, detail |-> detail, via |-> via, storage |-> storage,
     recv |-> recv, delivered |-> delivered]
\* InitEvents::init about to run step `step` of InitSteps
InitFrame(step) == Frame("init", step, Absent, "none", AdapterStorage, "none", FALSE)
\* window.dispatch_event(app-ready) with n handlers still to run
AppReadyFrame(n, storage) == Frame("app_ready", n, Absent, "none", storage, "none", FALSE)
\* wallet code holding a register object
WalletFrame(via, storage, recv) == Frame("wallet", 0, Absent, via, storage, recv, FALSE)
\* the register closure reflecting an announcement: Wallet::from_jsvalue reads
\* the host object, whose getters are wallet code
RegisterFrame(via, storage) == Frame("register", 0, Absent, via, storage, "none", FALSE)
\* window.dispatchEvent(register-wallet); step counts the calls of the detail
EventFrame(detail, delivered) == Frame("event", 0, detail, "none", AdapterStorage, "none", delivered)

Details == {Null, Undefined, JsNumber, JsFunction}

Top == stack[Len(stack)]
Pop(n) == SubSeq(stack, 1, Len(stack) - n)
ReplaceTop(f) == [stack EXCEPT ![Len(stack)] = f]
TopIs(kind) == stack # <<>> /\ Top.kind = kind

\* mutant: app-ready is dispatched before the listener is attached
InitStepsSwapped == <<"dispatch_app_event", "register_wallet_event">>

\* InitEvents::init: the order of its two calls
InitSteps == <<"register_wallet_event", "dispatch_app_event">>

AtInitStep(name) ==
    /\ TopIs("init")
    /\ Top.step <= Len(InitSteps)
    /\ InitSteps[Top.step] = name

CallInit ==
    /\ stack = <<>>
    /\ initResult = "none"
    /\ stack' = <<InitFrame(1)>>
    /\ initResult' = "running"
    /\ UNCHANGED <<listenerInstalled, appReadyDispatched, registries, consoleErrors, panics,
                   ops, nEager, handlersRun, okLog, lastReg, borrows, borrowPanics,
                   probe, shorten, channelVars>>

\* InitEvents::register_wallet_event
RegisterWalletEvent ==
    /\ AtInitStep("register_wallet_event")
    /\ \E attached \in BOOLEAN :
         IF attached
         THEN /\ listenerInstalled' = TRUE
              /\ stack' = ReplaceTop(InitFrame(Top.step + 1))
              /\ UNCHANGED initResult
         ELSE /\ stack' = Pop(1)
              /\ initResult' = "Err"
              /\ UNCHANGED listenerInstalled
    /\ UNCHANGED <<appReadyDispatched, registries, consoleErrors, panics, ops, nEager,
                   handlersRun, okLog, lastReg, borrows, borrowPanics,
                   probe, shorten, channelVars>>

\* InitEvents::dispatch_app_event
DispatchAppEvent ==
    /\ AtInitStep("dispatch_app_event")
    /\ \E outcome \in {"new_fails", "dispatch_fails", "dispatched"} :
         IF outcome = "dispatched"
         THEN /\ appReadyDispatched' = TRUE
              /\ stack' = Append(ReplaceTop(InitFrame(Top.step + 1)),
                                 AppReadyFrame(nEager, AppReadyDetail(Top.storage)))
              /\ UNCHANGED initResult
         ELSE /\ stack' = Pop(1)
              /\ initResult' = "Err"
              /\ UNCHANGED appReadyDispatched
    /\ UNCHANGED <<listenerInstalled, registries, consoleErrors, panics, ops, nEager,
                   handlersRun, okLog, lastReg, borrows, borrowPanics,
                   probe, shorten, channelVars>>

\* InitEvents::init returns Ok(())
InitReturn ==
    /\ TopIs("init")
    /\ Top.step > Len(InitSteps)
    /\ stack' = Pop(1)
    /\ initResult' = "Ok"
    /\ UNCHANGED <<listenerInstalled, appReadyDispatched, registries, consoleErrors, panics,
                   ops, nEager, handlersRun, okLog, lastReg, borrows, borrowPanics,
                   probe, shorten, channelVars>>

\* the host runs the next app-ready handler, or the dispatch returns
AppReadyHandler ==
    /\ TopIs("app_ready")
    /\ IF Top.step > 0
       THEN /\ stack' = Append(ReplaceTop(AppReadyFrame(Top.step - 1, Top.storage)),
                               WalletFrame("app_ready", Top.storage, "window"))
            /\ handlersRun' = handlersRun + 1
       ELSE /\ stack' = Pop(1)
            /\ UNCHANGED handlersRun
    /\ UNCHANGED <<listenerInstalled, appReadyDispatched, initResult, registries,
                   consoleErrors, panics, ops, nEager, okLog, lastReg, borrows, borrowPanics,
                   probe, shorten, channelVars>>

\* mutant: the borrow is taken on entry of the closure and held over the match
BorrowScopeWholeClosure == "closure"

\* the extent of storage.borrow_mut(): a temporary of the insert statement
BorrowScope == "insert"

\* RefCell::borrow_mut: whether it succeeds on `storage`
CanBorrowMut(storage) == borrows[storage] = 0

\* register frames on the stack: register closures that are reflecting
RegisterDepth == Cardinality({i \in DOMAIN stack : stack[i].kind = "register"})

\* the register closure of register_object is called, by wallet code holding a
\* register object or by a getter of an announcement being reflected, and
\* starts Wallet::from_jsvalue
RegisterEnter ==
    /\ TopIs("wallet") \/ TopIs("register")
    /\ ops < MaxOps
    /\ IF BorrowScope = "closure"
       THEN IF CanBorrowMut(Top.storage)
            THEN /\ borrows' = [borrows EXCEPT ![Top.storage] = @ + 1]
                 /\ stack' = Append(stack, RegisterFrame(Top.via, Top.storage))
                 /\ UNCHANGED borrowPanics
            ELSE /\ borrowPanics' = borrowPanics + 1
                 /\ UNCHANGED <<stack, borrows>>
       ELSE /\ stack' = Append(stack, RegisterFrame(Top.via, Top.storage))
            /\ UNCHANGED <<borrows, borrowPanics>>
    /\ ops' = ops + 1
    /\ UNCHANGED <<listenerInstalled, appReadyDispatched, initResult, registries,
                   consoleErrors, panics, nEager, handlersRun, okLog, lastReg, probe,
                   shorten, channelVars>>

\* the register closure of register_object once Wallet::from_jsvalue(value)
\* has returned: the match, with the borrow of the insert statement
WalletRegister ==
    /\ TopIs("register")
    /\ \E value \in Anns : \E r \in Wallet_from_jsvalue(value) :
         /\ IF r.ok /\ (BorrowScope = "closure" \/ CanBorrowMut(Top.storage))
            THEN /\ registries' = [registries EXCEPT ![Top.storage] =
                                      insert(@, Fingerprint(r.val.name), r.val)]
                 /\ okLog' = Append(okLog, [wallet |-> r.val, via |-> Top.via,
                                            inInit |-> initResult = "running",
                                            depth |-> RegisterDepth])
                 /\ UNCHANGED <<consoleErrors, borrowPanics>>
            ELSE IF r.ok
            THEN /\ borrowPanics' = borrowPanics + 1
                 /\ UNCHANGED <<registries, okLog, consoleErrors>>
            ELSE /\ consoleErrors' = IF LogsError(r) THEN consoleErrors + 1 ELSE consoleErrors
                 /\ UNCHANGED <<registries, okLog, borrowPanics>>
         /\ lastReg' = [called |-> TRUE, kind |-> r.kind,
                        logged |-> consoleErrors' # consoleErrors,
                        changed |-> registries' # registries, via |-> Top.via]
    /\ borrows' = IF BorrowScope = "closure"
                  THEN [borrows EXCEPT ![Top.storage] = @ - 1]
                  ELSE borrows
    /\ stack' = Pop(1)
    /\ UNCHANGED <<listenerInstalled, appReadyDispatched, initResult, panics, ops, nEager,
                   handlersRun, probe, shorten, channelVars>>

\* a wallet dispatches wallet-standard:register-wallet on the window
DispatchRegisterWallet ==
    /\ stack = <<>> \/ TopIs("wallet") \/ TopIs("register")
    /\ ops < MaxOps
    /\ \E detail \in Details : stack' = Append(stack, EventFrame(detail, listenerInstalled))
    /\ ops' = ops + 1
    /\ UNCHANGED <<listenerInstalled, appReadyDispatched, initResult, registries,
                   consoleErrors, panics, nEager, handlersRun, okLog, lastReg, borrows, borrowPanics,
                   probe, shorten,
                   channelVars>>

\* the window has no listener for the event: nothing runs
EventLost ==
    /\ TopIs("event")
    /\ ~Top.delivered
    /\ stack' = Pop(1)
    /\ UNCHANGED <<listenerInstalled, appReadyDispatched, initResult, registries,
                   consoleErrors, panics, ops, nEager, handlersRun, okLog, lastReg, borrows, borrowPanics,
                   probe, shorten,
                   channelVars>>

\* the listener closure of register_wallet_event, up to its call of the detail
Listener ==
    /\ TopIs("event")
    /\ Top.delivered
    /\ Top.step = 0
    /\ IF Reflection_new(Top.detail).ok /\ into_function(Top.detail).ok
       THEN /\ stack' = Append(ReplaceTop([Top EXCEPT !.step = 1]),
                               WalletFrame("g", ListenerArg(Top.storage), "null"))
            /\ UNCHANGED panics
       ELSE /\ panics' = panics + 1
            /\ stack' = Pop(1)
    /\ UNCHANGED <<listenerInstalled, appReadyDispatched, initResult, registries,
                   consoleErrors, ops, nEager, handlersRun, okLog, lastReg, borrows, borrowPanics,
                   probe, shorten,
                   channelVars>>

\* wallet code returns (threw = FALSE) or throws; for a detail function the
\* listener closure then unwraps the result of call1
WalletExit ==
    /\ TopIs("wallet")
    /\ \E threw \in BOOLEAN :
         IF Top.via = "g"
         THEN /\ stack' = Pop(2)
              /\ panics' = IF jsvalue_to_error(threw).ok THEN panics ELSE panics + 1
         ELSE /\ stack' = Pop(1)
              /\ UNCHANGED panics
    /\ UNCHANGED <<listenerInstalled, appReadyDispatched, initResult, registries,
                   consoleErrors, ops, nEager, handlersRun, okLog, lastReg, borrows, borrowPanics,
                   probe, shorten,
                   channelVars>>

(***************************************************************************)
(* The WalletEvent channel (async_channel::bounded)                        *)
(***************************************************************************)
Capacity == 2
MaxSends == 3
Producers == {"p1", "p2"}

\* mutant: a send is accepted while the channel is full
HasRoomOffByOne(buf) == Len(buf) <= Capacity

HasRoom(buf) == Len(buf) < Capacity

\* Sender::send: the event is buffered, or the send suspends on a full channel
Send(p) ==
    /\ chNext[p] <= MaxSends
    /\ ~chWait[p]
    /\ IF HasRoom(chBuf)
       THEN /\ chBuf' = Append(chBuf, [from |-> p, seq |-> chNext[p]])
            /\ chNext' = [chNext EXCEPT ![p] = @ + 1]
            /\ UNCHANGED <<chWait, chDrained>>
       ELSE /\ chWait' = [chWait EXCEPT ![p] = TRUE]
            /\ chDrained' = [chDrained EXCEPT ![p] = 0]
            /\ UNCHANGED <<chBuf, chNext>>
    /\ UNCHANGED <<chRecv, handshakeVars, probe, shorten>>

\* a suspended send completes once the channel has room
SendResume(p) ==
    /\ chWait[p]
    /\ HasRoom(chBuf)
    /\ chBuf' = Append(chBuf, [from |-> p, seq |-> chNext[p]])
    /\ chNext' = [chNext EXCEPT ![p] = @ + 1]
    /\ chWait' = [chWait EXCEPT ![p] = FALSE]
    /\ UNCHANGED <<chDrained, chRecv, handshakeVars, probe, shorten>>

\* Receiver::recv
Recv ==
    /\ chBuf # <<>>
    /\ chRecv' = Append(chRecv, Head(chBuf))
    /\ chBuf' = Tail(chBuf)
    /\ chDrained' = [p \in Producers |-> IF chWait[p] THEN chDrained[p] + 1 ELSE chDrained[p]]
    /\ UNCHANGED <<chNext, chWait, handshakeVars, probe, shorten>>

(***************************************************************************)
(* Specifications                                                          *)
(***************************************************************************)
HandshakeIdle ==
    /\ stack = <<>>
    /\ listenerInstalled = FALSE
    /\ appReadyDispatched = FALSE
    /\ initResult = "none"
    /\ registries = [s \in Storages |-> EmptyRegistry]
    /\ consoleErrors = 0
    /\ panics = 0
    /\ ops = 0
    /\ handlersRun = 0
    /\ okLog = <<>>
    /\ lastReg = NoReg
    /\ borrows = [s \in Storages |-> 0]
    /\ borrowPanics = 0

ChannelIdle ==
    /\ chBuf = <<>>
    /\ chNext = [p \in Producers |-> 1]
    /\ chWait = [p \in Producers |-> FALSE]
    /\ chDrained = [p \in Producers |-> 0]
    /\ chRecv = <<>>

Init ==
    /\ HandshakeIdle
    /\ nEager \in 0..MaxEager
    /\ probe = NoProbe
    /\ shorten = NoShorten
    /\ ChannelIdle

Next ==
    \/ CallInit
    \/ RegisterWalletEvent
    \/ DispatchAppEvent
    \/ InitReturn
    \/ AppReadyHandler
    \/ RegisterEnter
    \/ WalletRegister
    \/ DispatchRegisterWallet
    \/ EventLost
    \/ Listener
    \/ WalletExit

Spec == Init /\ [][Next]_vars

InitReflect ==
    /\ HandshakeIdle
    /\ nEager = 0
    /\ probe = NoProbe
    /\ shorten = NoShorten
    /\ ChannelIdle

NextReflect ==
    \/ ProbeString
    \/ ProbeReflectInner
    \/ ProbeReflectBytes
    \/ ProbeByte32Array
    \/ ProbeGetFunction
    \/ ProbeVecString
    \/ ProbeVecStringAndFilter
    \/ ProbeObjectToVecString

SpecReflect == InitReflect /\ [][NextReflect]_vars

NextChannel ==
    \/ \E p \in Producers : Send(p)
    \/ \E p \in Producers : SendResume(p)
    \/ Recv

SpecChannel == InitReflect /\ [][NextChannel]_vars

NextShorten ==
    \/ ShortenBase58
    \/ CustomShortenBase58

SpecShorten == InitReflect /\ [][NextShorten]_vars

(***************************************************************************)
(* Properties                                                              *)
(***************************************************************************)
alpha == <<"a", "l", "p", "h", "a">>
beta == <<"b", "e", "t", "a">>
Registry == registries[AdapterStorage]
\* register-wallet dispatches in progress
EventFrames == {i \in DOMAIN stack : stack[i].kind = "event"}
\* those started from inside an app-ready handler
EventsUnderAppReady ==
    {i \in EventFrames : \E j \in 1..(i - 1) : stack[j].kind = "app_ready"}
\* the listener has called the detail function of event frame i, with a null
\* receiver and a register object on the registry given to init
DetailCalled(i) ==
    /\ i < Len(stack)
    /\ stack[i].step = 1
    /\ stack[i + 1].kind = "wallet"
    /\ stack[i + 1].via = "g"
    /\ stack[i + 1].recv = "null"
    /\ stack[i + 1].storage = AdapterStorage

\* C1: the register-wallet listener is attached before app-ready is
\* dispatched, so a register-wallet event fired from inside an app-ready
\* handler is delivered to the listener, and its detail function is called
\* with a register object.
C1_ListenerBeforeAppReady ==
    /\ appReadyDispatched => listenerInstalled
    /\ \A i \in EventsUnderAppReady :
         /\ stack[i].delivered
         /\ (stack[i].detail.t = "function" /\ i < Len(stack)) => DetailCalled(i)

C1_Witness ==
    \E i \in EventsUnderAppReady : stack[i].detail.t = "function" /\ DetailCalled(i)

LowerNames == {to_lowercase(okLog[i].wallet.name) : i \in DOMAIN okLog}
LastOk(n) ==
    LET is == {i \in DOMAIN okLog : to_lowercase(okLog[i].wallet.name) = n}
    IN  okLog[CHOOSE i \in is : \A j \in is : j <= i].wallet

\* C2: after any sequence of registrations the registry holds exactly one
\* entry per lowercased name, keyed by Blake3(lowercase(name)), whose value is
\* the wallet of the most recent successful registration with that name.
C2_OneEntryPerLowercaseName ==
    /\ DOMAIN Registry = {Blake3(n) : n \in LowerNames}
    /\ Cardinality(DOMAIN Registry) = Cardinality(LowerNames)
    /\ \A n \in LowerNames : Registry[Blake3(n)] = LastOk(n)

C2_Witness ==
    /\ Len(okLog) = 2
    /\ okLog[1].wallet.name = Alpha /\ okLog[1].via = "app_ready"
    /\ okLog[2].wallet.name = ALPHA /\ okLog[2].via = "g"
    /\ DOMAIN Registry = {Blake3(alpha)}
    /\ Registry[Blake3(alpha)].name = ALPHA

\* C3: whenever init returns Err the window has no register-wallet listener
\* and no app-ready event has been dispatched.
C3_FailedInitLeavesNothing ==
    initResult = "Err" => ~listenerInstalled /\ ~appReadyDispatched

\* C4: a failure inside one wallet's registration never aborts the session:
\* no panic occurs, the listener stays installed and every wallet registered
\* so far is still in the registry.
C4_RegistrationFailuresIsolated ==
    /\ panics = 0
    /\ initResult = "Ok" => listenerInstalled
    /\ \A n \in LowerNames : Blake3(n) \in DOMAIN Registry

\* C5: a register call whose reflection fails leaves the registry unchanged;
\* an UnsupportedChain error is not written to the console and every other
\* error kind is.
C5_ErrorsLoggedByKind ==
    (lastReg.called /\ lastReg.kind # "Ok") =>
        /\ ~lastReg.changed
        /\ lastReg.kind = "UnsupportedChain" => ~lastReg.logged
        /\ lastReg.kind # "UnsupportedChain" => lastReg.logged

\* C6: when init returns Ok the dispatch has run every app-ready handler and
\* every wallet validly registered during init is in the registry; with the one
\* eager wallet "Alpha" the registry is exactly the entry under Blake3("alpha").
C6_EagerWalletsRegisteredAtInitOk ==
    initResult = "Ok" =>
        /\ handlersRun = nEager
        /\ \A i \in DOMAIN okLog :
             okLog[i].inInit => Blake3(to_lowercase(okLog[i].wallet.name)) \in DOMAIN Registry
        /\ (Len(okLog) = 1 /\ okLog[1].wallet.name = Alpha) =>
             /\ DOMAIN Registry = {Blake3(alpha)}
             /\ Registry[Blake3(alpha)] = okLog[1].wallet

C6_Witness ==
    /\ initResult = "Ok"
    /\ nEager = 1
    /\ Len(okLog) = 1
    /\ okLog[1].wallet.name = Alpha /\ okLog[1].via = "app_ready" /\ okLog[1].inInit
    /\ DOMAIN Registry = {Blake3(alpha)}

\* C7: after init returned Ok the listener stays installed; every later
\* register-wallet event is delivered and, when its detail is a function, that
\* function is called once, with a null receiver and a register object that
\* inserts into the registry given to init.
C7_ListenerPersistent ==
    initResult = "Ok" =>
        /\ listenerInstalled
        /\ \A i \in EventFrames :
             /\ stack[i].delivered
             /\ stack[i].step <= 1
             /\ (stack[i].detail.t = "function" /\ i < Len(stack)) => DetailCalled(i)
        /\ \A i \in DOMAIN okLog :
             okLog[i].via = "g" =>
                Blake3(to_lowercase(okLog[i].wallet.name)) \in DOMAIN Registry

C7_Witness ==
    /\ initResult = "Ok"
    /\ stack = <<>>
    /\ \E i \in DOMAIN okLog :
         /\ okLog[i].wallet.name = Beta /\ okLog[i].via = "g" /\ ~okLog[i].inInit
    /\ Blake3(beta) \in DOMAIN Registry

ReceivedFrom(p) == SelectSeq(chRecv, LAMBDA e : e.from = p)

\* C8: the channel never buffers more than Capacity events, a send that found
\* the channel full completes only after the consumer received an event, and
\* the events of one producer are received in the order it sent them.
C8_BoundedFifoChannel ==
    /\ [](/\ Len(chBuf) <= Capacity
          /\ \A p \in Producers :
               \A i \in DOMAIN ReceivedFrom(p) : ReceivedFrom(p)[i].seq = i)
    /\ [][\A p \in Producers : (chWait[p] /\ ~chWait'[p]) => chDrained[p] >= 1]_vars

C8_Witness ==
    /\ chRecv = <<[from |-> "p1", seq |-> 1], [from |-> "p1", seq |-> 2],
                  [from |-> "p1", seq |-> 3]>>
    /\ chDrained["p1"] >= 1
    /\ chNext["p2"] = 1

NoEntryMatches(items, prefix) ==
    \A i \in DOMAIN items : ~(items[i].t = "string" /\ starts_with(items[i].s, prefix))

\* C9: for a chains array of any length, zero included, with no entry that
\* starts with the prefix, vec_string_and_filter yields Err(UnsupportedChain);
\* an Ok result is never a partial list.
C9_NoMatchingChainIsUnsupported ==
    (probe.op = "vec_string_and_filter" /\ probe.field.t = "array") =>
        /\ NoEntryMatches(probe.field.items, SolanaPrefix) => probe.r.kind = "UnsupportedChain"
        /\ probe.r.ok => Len(probe.r.val) = Len(probe.field.items)

\* C10: every extraction by key yields Err(ValueNotFound) when the field is
\* missing, null or undefined.
C10_MissingIsValueNotFound ==
    (probe.op # "none" /\ probe.field.t \in {"absent", "null", "undefined"}) =>
        probe.r.kind = "ValueNotFound"

\* the result the shortening is specified to give: first n + "..." + last n,
\* InvalidBase58Address when the string is shorter than 2n
Shortened(s, n) ==
    IF Len(s) < 2 * n THEN Err("InvalidBase58Address", <<>>)
    ELSE Ok(SubSeq(s, 1, n) \o Ellipsis \o SubSeq(s, Len(s) - n + 1, Len(s)))

\* C11: custom_shorten_base58(s, n) is Err(InvalidBase58Address) exactly when
\* len(s) < 2n and otherwise first n + "..." + last n, for every n >= 0;
\* shorten_base58(s) is custom_shorten_base58(s, 4).
C11_ShortenIsFirstAndLast ==
    /\ shorten.op = "custom_shorten_base58" => shorten.r = Shortened(shorten.s, shorten.take)
    /\ shorten.op = "shorten_base58" => shorten.r = Shortened(shorten.s, 4)

\* C12: in every interleaving of registration callbacks, re-entrant ones
\* included, the register closure holds the registry's mutable borrow only
\* inside its insert statement: no borrow is live while an announcement is being
\* reflected or while host code runs, and borrow_mut never panics.
C12_BorrowsNeverOverlap ==
    /\ borrowPanics = 0
    /\ \A s \in Storages : borrows[s] = 0

\* a register-wallet event dispatched while an app-ready registration was
\* reflecting its announcement registered Beta first; the outer registration
\* of Alpha then completed
C12_Witness ==
    /\ Len(okLog) = 2
    /\ okLog[1].via = "g" /\ okLog[1].depth = 2 /\ okLog[1].wallet.name = Beta
    /\ okLog[2].via = "app_ready" /\ okLog[2].depth = 1 /\ okLog[2].wallet.name = Alpha
    /\ DOMAIN Registry = {Blake3(alpha), Blake3(beta)}
    /\ borrowPanics = 0

====
